---------------------------- MODULE Spec2Model ----------------------------
(***************************************************************************)
(* Model of src/enhanced_tester.py: the EnhancedNodeTester batch engine    *)
(* (test_nodes_batch / test_single_node under an asyncio.Semaphore) and    *)
(* the probes it calls (SpeedTester, IPInfoTester, StreamingTester).       *)
(*                                                                         *)
(* Granularity.  asyncio is cooperative: a coroutine runs without          *)
(* interruption until it suspends on network I/O or on a locked semaphore. *)
(* One action of the batch model is one such uninterrupted run.  The       *)
(* value of pc[i] names the probe inside which pipeline i is suspended.    *)
(* tcp_ping_test is a plain (blocking) function: the run that acquires the *)
(* permit goes on into connect_ex, and while the thread waits there        *)
(* (pc[i] = "tcp") the event loop runs nothing else.                       *)
(*                                                                         *)
(* Encodings.  Latencies are whole milliseconds, speeds are in units of    *)
(* 0.1 MB/s (so that download * 0.7 stays an integer), a dict is a set of  *)
(* <<key, value>> pairs, and the literal strings of the source are         *)
(* replaced by ASCII names defined below.                                  *)
(***************************************************************************)
EXTENDS Integers, Sequences, FiniteSets, TLC

VARIABLES
    nodes,          \* the argument of test_nodes_batch: a sequence of nodes
    config,         \* self.config
    batchpc,        \* position of test_nodes_batch
    permits,        \* the value of the asyncio.Semaphore
    pc,             \* pc[i]: position of the task of node i
    result,         \* result[i]: the NodeTestResult of test_single_node(nodes[i])
    calls,          \* calls[i][p]: how often the pipeline of node i made call p
    faults,         \* faults[i]: the steps of pipeline i that failed or timed out
    overtaken,      \* whether a task completed before a task of an earlier node
    valid_results,  \* the list test_nodes_batch returns
    sp_out, sp_ret,             \* SpeedTester.test_download_speed: outcomes, return
    geo_out, geo_ret,           \* IPInfoTester.get_ip_info: outcomes, return
    st_out, st_state, st_results, st_pc,  \* StreamingTester.test_all_streaming
    rp_in, rp_out               \* generate_test_report: argument, return

batchVars == <<nodes, config, batchpc, permits, pc, result, calls, faults,
               overtaken, valid_results>>
speedVars == <<sp_out, sp_ret>>
geoVars == <<geo_out, geo_ret>>
streamVars == <<st_out, st_state, st_results, st_pc>>
reportVars == <<rp_in, rp_out>>
probeVars == <<speedVars, geoVars, streamVars, reportVars>>
vars == <<batchVars, probeVars>>

-----------------------------------------------------------------------------
(* Bounds of the model *)

MaxNodes == 2       \* longest node list
MaxCap == 2         \* largest configured max_concurrent
MaxSpeed == 2       \* fastest candidate download, in MB/s
MaxFaults == 1      \* most stages of the batch's pipelines that fail, after the TCP tests
MaxResults == 2     \* longest result list handed to generate_test_report

-----------------------------------------------------------------------------
(* Literals of the source *)

NotTested == "not_tested"           \* "未测试"
Unsupported == "x unsupported"      \* "❌ 不支持"
FullSupport == "ok full support"    \* "✅ 完整支持"
Supported == "ok supported"         \* "✅ 支持"
Partial == "warn partial"           \* "⚠️ 部分支持"
DetectFailed == "? detect failed"   \* "❓ 检测失败"
TimedOut == "timed out"             \* "⏱️ 超时"
Unknown == "unknown"                \* "未知"
TcpFailedMsg == "tcp connect failed" \* "TCP连接失败"
Now == "now"                        \* time.strftime(...)

-----------------------------------------------------------------------------
(* dict.get *)

HasKey(d, k) == \E p \in d : p[1] = k

DictGet(d, k, default) ==
    IF HasKey(d, k) THEN (CHOOSE p \in d : p[1] = k)[2] ELSE default


DictSet(d, k, v) == {p \in d : p[1] # k} \cup {<<k, v>>}

-----------------------------------------------------------------------------
(* SpeedTester *)

\* The candidate files of test_download_speed, by size in MB.
test_urls == <<"otenet 1Mb", "otenet 10Mb", "ovh 1Mb", "ovh 10Mb">>

\* What the network does to one candidate download: the request raises
\* (connection error, ClientTimeout), or a response arrives with a status,
\* a number of bytes delivered (units of 0.1 MB) and an elapsed time (s).
DownloadExc == [kind |-> "exc", status |-> 0, downloaded |-> 0, elapsed |-> 0]

DownloadResp(s, d, e) ==
    [kind |-> "resp", status |-> s, downloaded |-> d, elapsed |-> e]

DownloadOutcomes ==
    {DownloadExc} \cup
    {DownloadResp(s, 10 * d, e) : s \in {200, 404}, d \in 0..MaxSpeed, e \in {0, 1}}

\* _download_test_single, for an outcome that is a response: the bytes are
\* counted only under status 200; the speed is returned only if elapsed > 0.
download_test_single(o) ==
    LET downloaded == IF o.status = 200 THEN o.downloaded ELSE 0
    IN  IF o.elapsed > 0 THEN downloaded \div o.elapsed ELSE 0

\* Mutant: the first candidate that succeeds decides the result.
DownloadLoopFirstSuccess(outs, i, best_speed) ==
    LET ok == {k \in i..Len(test_urls) : outs[k].kind # "exc"} IN
    IF ok = {} THEN best_speed
    ELSE download_test_single(outs[CHOOSE k \in ok : \A j \in ok : k <= j])

RECURSIVE DownloadLoop(_, _, _)
DownloadLoop(outs, i, best_speed) ==
    IF i > Len(test_urls) THEN best_speed
    ELSE IF outs[i].kind = "exc" THEN DownloadLoop(outs, i + 1, best_speed)
    ELSE LET speed == download_test_single(outs[i])
         IN  DownloadLoop(outs, i + 1,
                          IF speed > best_speed THEN speed ELSE best_speed)

test_download_speed(outs) == DownloadLoop(outs, 1, 0)

\* download_speed * 0.7; the speeds of the model are multiples of 10.
test_upload_speed(outs) == (test_download_speed(outs) * 7) \div 10

-----------------------------------------------------------------------------
(* IPInfoTester *)

\* The providers of get_ip_info, named by the substring _query_ip_api
\* recognises in the URL.
apis == <<"ipapi.co", "ip-api.com", "httpbin.org", "ipify.org">>

UnknownInfo == [ip |-> Unknown, country |-> Unknown, city |-> Unknown, isp |-> Unknown]

\* The JSON document a provider answers with: its own keys, its own values.
ProviderDoc(api) ==
    CASE api = "ipapi.co" ->
           {<<"ip", "1.1.1.1">>, <<"country_name", "JP">>, <<"city", "Tokyo">>,
            <<"org", "isp-1">>}
      [] api = "ip-api.com" ->
           {<<"query", "2.2.2.2">>, <<"country", "US">>, <<"city", "Dallas">>,
            <<"isp", "isp-2">>}
      [] api = "httpbin.org" -> {<<"origin", "3.3.3.3">>}
      [] api = "ipify.org" -> {<<"ip", "4.4.4.4">>}

GeoExc == [kind |-> "exc", status |-> 0, data |-> {}]

GeoResp(s, d) == [kind |-> "resp", status |-> s, data |-> d]

\* The request raises (timeout, connection error, unparsable body), or a
\* response arrives: not 200, 200 with the full document, 200 with "{}".
GeoOutcomes(api) ==
    {GeoExc, GeoResp(503, ProviderDoc(api)), GeoResp(200, ProviderDoc(api)),
     GeoResp(200, {})}

NoneResult == [none |-> TRUE, info |-> UnknownInfo]

Some(info) == [none |-> FALSE, info |-> info]

\* _query_ip_api, for an outcome that is a response.
query_ip_api(api_url, o) ==
    LET data == o.data IN
    IF o.status # 200 THEN NoneResult
    ELSE CASE api_url = "ipapi.co" ->
                Some([ip |-> DictGet(data, "ip", ""),
                      country |-> DictGet(data, "country_name", ""),
                      city |-> DictGet(data, "city", ""),
                      isp |-> DictGet(data, "org", "")])
           [] api_url = "ip-api.com" ->
                Some([ip |-> DictGet(data, "query", ""),
                      country |-> DictGet(data, "country", ""),
                      city |-> DictGet(data, "city", ""),
                      isp |-> DictGet(data, "isp", "")])
           [] api_url = "httpbin.org" ->
                Some([ip |-> DictGet(data, "origin", ""),
                      country |-> Unknown, city |-> Unknown, isp |-> Unknown])
           [] api_url = "ipify.org" ->
                Some([ip |-> DictGet(data, "ip", ""),
                      country |-> Unknown, city |-> Unknown, isp |-> Unknown])
           [] OTHER -> NoneResult

\* The loop of get_ip_info from provider i on: the returned record and the
\* number of providers queried.  "if result" holds for every dict returned
\* (it has four keys) and fails for None.
\* Mutant: every provider is queried and the last one that answers wins.
GeoLoopLastWins(outs, i) ==
    LET ok == {k \in i..Len(apis) :
                  outs[k].kind # "exc" /\ ~query_ip_api(apis[k], outs[k]).none} IN
    IF ok = {} THEN [ret |-> UnknownInfo, queried |-> Len(apis)]
    ELSE LET k == CHOOSE m \in ok : \A j \in ok : j <= m
         IN  [ret |-> query_ip_api(apis[k], outs[k]).info, queried |-> Len(apis)]

\* Mutant: when no provider answers, the record of empty strings is
\* returned.
GeoLoopEmptyOnFailure(outs, i) ==
    LET ok == {k \in i..Len(apis) :
                  outs[k].kind # "exc" /\ ~query_ip_api(apis[k], outs[k]).none} IN
    IF ok = {}
    THEN [ret |-> [ip |-> "", country |-> "", city |-> "", isp |-> ""],
          queried |-> Len(apis)]
    ELSE LET k == CHOOSE m \in ok : \A j \in ok : m <= j
         IN  [ret |-> query_ip_api(apis[k], outs[k]).info, queried |-> k]

RECURSIVE GeoLoop(_, _)
GeoLoop(outs, i) ==
    IF i > Len(apis) THEN [ret |-> UnknownInfo, queried |-> Len(apis)]
    ELSE IF outs[i].kind = "exc" THEN GeoLoop(outs, i + 1)
    ELSE LET r == query_ip_api(apis[i], outs[i])
         IN  IF ~r.none THEN [ret |-> r.info, queried |-> i]
             ELSE GeoLoop(outs, i + 1)

get_ip_info(outs) == GeoLoop(outs, 1)

-----------------------------------------------------------------------------
(* StreamingTester *)

\* The (name, coroutine) list of test_all_streaming.
tasks == <<"netflix", "youtube", "disney", "bilibili", "bahamut">>

Services == {tasks[k] : k \in 1..Len(tasks)}

\* What happens to one check: it does not return before wait_for gives up
\* ("timeout"), its request raises ("exc"), or a response arrives with a
\* status and a body.  A text body is the set of the phrases it contains
\* ("neg": the not-available phrase, "pos": the watch/subscribe phrase); the
\* bilibili body is a JSON document, whose code is written as a string.
CheckTimeout == [kind |-> "timeout", status |-> 0, body |-> {}]

CheckExc == [kind |-> "exc", status |-> 0, body |-> {}]

CheckResp(s, b) == [kind |-> "resp", status |-> s, body |-> b]

Bodies(name) ==
    IF name = "bilibili"
    THEN {{<<"code", "0">>}, {<<"code", "-10403">>}, {<<"code", "1">>}}
    ELSE {{<<"text", m>> : m \in ms} : ms \in SUBSET {"neg", "pos"}}

CheckOutcomes(name) ==
    {CheckTimeout, CheckExc, CheckResp(403, {})}
    \cup {CheckResp(200, b) : b \in Bodies(name)}

test_netflix(o) ==
    IF o.kind = "exc" THEN DetectFailed
    ELSE IF o.status = 200
         THEN IF <<"text", "neg">> \in o.body THEN Unsupported
              ELSE IF <<"text", "pos">> \in o.body THEN FullSupport
              ELSE Partial
         ELSE DetectFailed

test_youtube_premium(o) ==
    IF o.kind = "exc" THEN DetectFailed
    ELSE IF o.status = 200
         THEN IF <<"text", "pos">> \in o.body THEN Supported ELSE Unsupported
         ELSE DetectFailed

test_disney_plus(o) ==
    IF o.kind = "exc" THEN DetectFailed
    ELSE IF o.status = 200
         THEN IF <<"text", "neg">> \in o.body THEN Unsupported
              ELSE IF <<"text", "pos">> \in o.body THEN Supported
              ELSE Partial
         ELSE DetectFailed

test_bilibili(o) ==
    IF o.kind = "exc" THEN DetectFailed
    ELSE IF o.status = 200
         THEN IF DictGet(o.body, "code", "None") = "0" THEN Supported
              ELSE IF DictGet(o.body, "code", "None") = "-10403" THEN Unsupported
              ELSE Partial
         ELSE DetectFailed

test_bahamut(o) ==
    IF o.kind = "exc" THEN DetectFailed
    ELSE IF o.status = 200
         THEN IF <<"text", "neg">> \in o.body THEN Unsupported
              ELSE IF <<"text", "pos">> \in o.body THEN Supported
              ELSE Partial
         ELSE DetectFailed

RunCheck(name, o) ==
    CASE name = "netflix" -> test_netflix(o)
      [] name = "youtube" -> test_youtube_premium(o)
      [] name = "disney" -> test_disney_plus(o)
      [] name = "bilibili" -> test_bilibili(o)
      [] name = "bahamut" -> test_bahamut(o)

\* One iteration of the loop of test_all_streaming: wait_for the check and
\* store what it returned, or the timeout literal.
\* Mutant: a check that times out leaves no entry.
StreamStepDropsTimeout(outs, k, results) ==
    LET name == tasks[k] IN
    IF outs[name].kind = "timeout" THEN results
    ELSE DictSet(results, name, RunCheck(name, outs[name]))

StreamStep(outs, k, results) ==
    LET name == tasks[k] IN
    IF outs[name].kind = "timeout" THEN DictSet(results, name, TimedOut)
    ELSE DictSet(results, name, RunCheck(name, outs[name]))

RECURSIVE StreamLoop(_, _, _)
StreamLoop(outs, k, results) ==
    IF k > Len(tasks) THEN results
    ELSE StreamLoop(outs, k + 1, StreamStep(outs, k, results))

test_all_streaming(outs) == StreamLoop(outs, 1, {})


-----------------------------------------------------------------------------
(* Nodes, configuration, NodeTestResult *)

Node(n, s, p, proto) == [name |-> n, server |-> s, port |-> p, protocol |-> proto]

NodeSet ==
    {Node("hk1", "hk1.example.com", 443, "http"),
     Node("us1", "us1.example.com", 8443, "trojan")}

RECURSIVE SeqsUpTo(_, _)
SeqsUpTo(S, n) ==
    IF n = 0 THEN {<<>>}
    ELSE LET shorter == SeqsUpTo(S, n - 1)
         IN  shorter \cup {Append(q, x) : q \in {t \in shorter : Len(t) = n - 1}, x \in S}

NodeLists == SeqsUpTo(NodeSet, MaxNodes)

\* The dict __init__ installs when it is given no config (or an empty one).
DefaultConfig ==
    {<<"enable_speed_test", TRUE>>, <<"enable_streaming_test", TRUE>>,
     <<"enable_ip_test", TRUE>>, <<"test_timeout", 30>>, <<"max_concurrent", 5>>}

EnhancedNodeTester(cfg) == IF cfg = {} THEN DefaultConfig ELSE cfg

\* Configurations that leave options unset: no config at all, only the cap,
\* and only two of the enable flags.
PartialConfigs ==
    {{},
     {<<"max_concurrent", 1>>},
     {<<"enable_ip_test", TRUE>>, <<"enable_streaming_test", TRUE>>}}

\* The configurations handed to the constructor.
Configs ==
    {{<<"enable_speed_test", sp>>, <<"enable_streaming_test", st>>,
      <<"enable_ip_test", ip>>, <<"test_timeout", 30>>, <<"max_concurrent", c>>} :
        sp \in BOOLEAN, st \in BOOLEAN, ip \in BOOLEAN, c \in (-1)..MaxCap}
    \cup PartialConfigs

\* self.config.get(key) used as a condition: a missing key gives None.
Flag(cfg, key) == HasKey(cfg, key) /\ DictGet(cfg, key, FALSE)

\* NodeTestResult(name, server, port, protocol, test_time) with the defaults
\* of the dataclass.
NodeTestResult(node) ==
    [name |-> node.name, server |-> node.server, port |-> node.port,
     protocol |-> node.protocol,
     tcp_ping |-> -1, http_ping |-> -1, is_alive |-> FALSE,
     download_speed |-> 0, upload_speed |-> 0,
     real_ip |-> "", country |-> "", city |-> "", isp |-> "",
     netflix |-> NotTested, youtube |-> NotTested, disney |-> NotTested,
     hbo |-> NotTested, prime_video |-> NotTested, bilibili |-> NotTested,
     bahamut |-> NotTested,
     test_time |-> Now, error_msg |-> ""]

-----------------------------------------------------------------------------
(* The probes of EnhancedNodeTester *)

\* connect_ex returns an error code (0: connected), or the attempt raises
\* (name resolution, socket error).
TcpOutcomes ==
    {[kind |-> "ret", code |-> 0, ms |-> 20],
     [kind |-> "ret", code |-> 111, ms |-> 20],
     [kind |-> "exc", code |-> 0, ms |-> 0]}

\* Mutant: the latency measured so far is returned for a failed connect.
tcp_ping_test_keeps_latency(o) ==
    IF o.kind = "exc" THEN <<FALSE, -1>> ELSE <<o.code = 0, o.ms>>

\* Mutant: a connect that fails is reported with a latency of 0.
tcp_ping_test_zero_on_failure(o) ==
    IF o.kind = "exc" THEN <<FALSE, 0>>
    ELSE <<o.code = 0, IF o.code = 0 THEN o.ms ELSE 0>>

tcp_ping_test(o) ==
    IF o.kind = "exc" THEN <<FALSE, -1>>
    ELSE <<o.code = 0, IF o.code = 0 THEN o.ms ELSE -1>>

\* Whether tcp_ping_test reaches its sock.close(): only when connect_ex
\* returned; the except branch returns without closing.
tcp_ping_test_closes(o) == o.kind = "ret"

HttpOutcomes == {[kind |-> "ret", ms |-> 30], [kind |-> "exc", ms |-> 0]}

\* Mutant: a failed request is reported as a latency of 0.
http_ping_test_zero_on_error(o) == IF o.kind = "exc" THEN 0 ELSE o.ms

http_ping_test(o) == IF o.kind = "exc" THEN -1 ELSE o.ms

\* None is <<>>.
build_proxy_url(node) ==
    IF node.protocol = "http" THEN <<"http", node.server, node.port>>
    ELSE IF node.protocol = "socks5" THEN <<"socks5", node.server, node.port>>
    ELSE <<>>

\* create_session and close do no probing; they return or raise.
SessionOutcomes == {[kind |-> "ret", msg |-> ""], [kind |-> "exc", msg |-> "session error"]}

CloseOutcomes == {[kind |-> "ret", msg |-> ""], [kind |-> "exc", msg |-> "close error"]}

\* The network scenarios the batch model draws the probes' outcomes from.
GeoScenarios ==
    {[k \in 1..Len(apis) |-> IF k = 1 THEN GeoExc ELSE GeoResp(200, ProviderDoc(apis[k]))],
     [k \in 1..Len(apis) |-> GeoExc]}

GeoAllFailed(outs) ==
    \A k \in 1..Len(apis) : outs[k].kind = "exc" \/ outs[k].status # 200

DownloadScenarios ==
    {<<DownloadExc, DownloadResp(200, 20, 1), DownloadResp(200, 10, 1), DownloadExc>>,
     [k \in 1..Len(test_urls) |-> DownloadExc]}

DownloadAllFailed(outs) == \A k \in 1..Len(test_urls) : outs[k].kind = "exc"

StreamScenarios ==
    {[s \in Services |->
        IF s = "bilibili" THEN CheckResp(200, {<<"code", "0">>})
        ELSE CheckResp(200, {<<"text", "pos">>})],
     [s \in Services |->
        IF s = "netflix" THEN CheckTimeout
        ELSE IF s = "bilibili" THEN CheckResp(200, {<<"code", "-10403">>})
        ELSE IF s = "youtube" THEN CheckExc
        ELSE CheckResp(200, {<<"text", "neg">>})]}

StreamFaults(outs) == {s \in Services : outs[s].kind \in {"timeout", "exc"}}

-----------------------------------------------------------------------------
(* test_single_node under test_with_semaphore *)

ProbeNames ==
    {"tcp_ping_test", "http_ping_test", "get_ip_info", "test_download_speed",
     "test_upload_speed", "create_session", "test_all_streaming", "close"}

\* The calls that release a connection: sock.close() of tcp_ping_test.
ReleaseNames == {"sock.close"}

CallNames == ProbeNames \cup ReleaseNames

NoCalls == [p \in CallNames |-> 0]

Called(c, names) == [p \in CallNames |-> IF p \in names THEN c[p] + 1 ELSE c[p]]

\* Mutant: the geo probe is awaited before the latency probe.
StagesGeoFirst == <<"geo", "http", "download", "upload", "streaming">>

\* The awaits of test_single_node after the TCP test, in program order.
Stages == <<"http", "geo", "download", "upload", "streaming">>

\* Mutant: the geo stage follows the option of the throughput stage.
StageEnabledCoupled(s, node, cfg) ==
    CASE s = "http" -> build_proxy_url(node) # <<>>
      [] s = "geo" -> Flag(cfg, "enable_speed_test")
      [] s = "download" -> Flag(cfg, "enable_speed_test")
      [] s = "upload" -> Flag(cfg, "enable_speed_test")
      [] s = "streaming" -> Flag(cfg, "enable_streaming_test")

StageEnabled(s, node, cfg) ==
    CASE s = "http" -> build_proxy_url(node) # <<>>
      [] s = "geo" -> Flag(cfg, "enable_ip_test")
      [] s = "download" -> Flag(cfg, "enable_speed_test")
      [] s = "upload" -> Flag(cfg, "enable_speed_test")
      [] s = "streaming" -> Flag(cfg, "enable_streaming_test")

RECURSIVE NextStage(_, _, _)
NextStage(k, node, cfg) ==
    IF k > Len(Stages) THEN "end"
    ELSE IF StageEnabled(Stages[k], node, cfg) THEN Stages[k]
    ELSE NextStage(k + 1, node, cfg)

\* The probes invoked when the pipeline enters a stage.
StageCalls(s) ==
    CASE s = "http" -> {"http_ping_test"}
      [] s = "geo" -> {"get_ip_info"}
      [] s = "download" -> {"test_download_speed"}
      [] s = "upload" -> {"test_upload_speed", "test_download_speed"}
      [] s = "streaming" -> {"test_all_streaming"}

\* The number of failed stages after the TCP test in the fault set f (the
\* capability stage fails if any of its checks does).
FailedStages(f) ==
    Cardinality(f \ (Services \cup {"tcp"})) + (IF f \cap Services # {} THEN 1 ELSE 0)

RECURSIVE FailedStagesUpTo(_, _)
FailedStagesUpTo(fs, n) ==
    IF n = 0 THEN 0 ELSE FailedStages(fs[n]) + FailedStagesUpTo(fs, n - 1)

\* The scenarios explored: at most MaxFaults stages fail in one batch.
WithinBudget(fs) == FailedStagesUpTo(fs, Len(fs)) <= MaxFaults

Put(f, i, v) == [j \in DOMAIN f \cup {i} |-> IF j = i THEN v ELSE f[j]]

\* Mutant: the semaphore admits a task whatever its value.
SemaphoreNeverLocked(value) == FALSE

\* asyncio.Semaphore.locked: no permit is free.
SemaphoreLocked(value) == value <= 0

\* Mutant: the permit is not released when test_single_node returns.
CompleteKeepsPermit(i, r, f, p, c) ==
    /\ WithinBudget([faults EXCEPT ![i] = f])
    /\ pc' = [pc EXCEPT ![i] = "done"]
    /\ result' = Put(result, i, r)
    /\ faults' = [faults EXCEPT ![i] = f]
    /\ calls' = [calls EXCEPT ![i] = c]
    /\ permits' = p
    /\ overtaken' = (overtaken \/ \E j \in 1..(i - 1) : pc[j] # "done")

\* test_single_node returns r; leaving "async with semaphore" releases the
\* permit.  p is the semaphore's value while the task holds its permit.
Complete(i, r, f, p, c) ==
    /\ WithinBudget([faults EXCEPT ![i] = f])
    /\ pc' = [pc EXCEPT ![i] = "done"]
    /\ result' = Put(result, i, r)
    /\ faults' = [faults EXCEPT ![i] = f]
    /\ calls' = [calls EXCEPT ![i] = c]
    /\ permits' = p + 1
    /\ overtaken' = (overtaken \/ \E j \in 1..(i - 1) : pc[j] # "done")

\* test_single_node suspends inside the probe of stage s.
Suspend(i, r, f, p, c, s) ==
    /\ WithinBudget([faults EXCEPT ![i] = f])
    /\ pc' = [pc EXCEPT ![i] = s]
    /\ result' = Put(result, i, r)
    /\ faults' = [faults EXCEPT ![i] = f]
    /\ calls' = [calls EXCEPT ![i] = Called(c, StageCalls(s))]
    /\ permits' = p
    /\ overtaken' = overtaken

\* test_single_node runs on from stage k until it suspends or returns.
\* Entering the streaming stage constructs the tester and its session first;
\* if that raises, the handler of test_single_node stores str(e) and the
\* function returns the result as it stands.
Flow(i, r, f, p, c, k) ==
    LET s == NextStage(k, nodes[i], config) IN
    CASE s = "end" -> Complete(i, r, f, p, c)
      [] s = "streaming" ->
           \E cs \in SessionOutcomes :
              IF cs.kind = "exc"
              THEN Complete(i, [r EXCEPT !.error_msg = cs.msg], f \cup {"session"}, p,
                            Called(c, {"create_session"}))
              ELSE Suspend(i, r, f, p, Called(c, {"create_session"}), s)
      [] OTHER -> Suspend(i, r, f, p, c, s)

-----------------------------------------------------------------------------
(* test_nodes_batch *)

Tasks == 1..Len(nodes)

\* Lines 509-523: the semaphore is built (asyncio.Semaphore raises
\* ValueError for a negative value), one task per node is created and
\* gather starts waiting for them.
BatchStart ==
    /\ batchpc = "idle"
    /\ LET cap == DictGet(config, "max_concurrent", 5) IN
       IF cap < 0
       THEN /\ batchpc' = "raised"
            /\ UNCHANGED <<permits, pc, calls, faults>>
       ELSE /\ batchpc' = "gathering"
            /\ permits' = cap
            /\ pc' = [i \in Tasks |-> "waiting"]
            /\ calls' = [i \in Tasks |-> NoCalls]
            /\ faults' = [i \in Tasks |-> {}]
    /\ UNCHANGED <<nodes, config, result, overtaken, valid_results, probeVars>>

\* The thread is inside the blocking connect_ex of some pipeline, so the
\* event loop resumes no coroutine.
Blocked == \E j \in DOMAIN pc : pc[j] = "tcp"

\* The task of node i gets a permit and runs test_single_node into the
\* TCP test: the result is created and connect_ex is entered.
Admit(i) ==
    /\ batchpc = "gathering"
    /\ ~Blocked
    /\ pc[i] = "waiting"
    /\ ~SemaphoreLocked(permits)
    /\ pc' = [pc EXCEPT ![i] = "tcp"]
    /\ permits' = permits - 1
    /\ result' = Put(result, i, NodeTestResult(nodes[i]))
    /\ calls' = [calls EXCEPT ![i] = Called(calls[i], {"tcp_ping_test"})]
    /\ UNCHANGED <<nodes, config, batchpc, faults, overtaken, valid_results, probeVars>>

\* connect_ex returns or raises; test_single_node runs on to its first
\* suspension, and an unreachable node returns at once.
TcpPingReturn(i) ==
    /\ batchpc = "gathering"
    /\ pc[i] = "tcp"
    /\ \E o \in TcpOutcomes :
          LET t == tcp_ping_test(o)
              r == [result[i] EXCEPT !.is_alive = t[1], !.tcp_ping = t[2]]
              c == IF tcp_ping_test_closes(o) THEN Called(calls[i], {"sock.close"})
                   ELSE calls[i]
          IN  IF ~t[1]
              THEN Complete(i, [r EXCEPT !.error_msg = TcpFailedMsg], {"tcp"},
                            permits, c)
              ELSE Flow(i, r, {}, permits, c, 1)
    /\ UNCHANGED <<nodes, config, batchpc, valid_results, probeVars>>

HttpPingReturn(i) ==
    /\ batchpc = "gathering"
    /\ ~Blocked
    /\ pc[i] = "http"
    /\ \E o \in HttpOutcomes :
          Flow(i, [result[i] EXCEPT !.http_ping = http_ping_test(o)],
               faults[i] \cup (IF o.kind = "exc" THEN {"http"} ELSE {}),
               permits, calls[i], 2)
    /\ UNCHANGED <<nodes, config, batchpc, valid_results, probeVars>>

GeoReturn(i) ==
    /\ batchpc = "gathering"
    /\ ~Blocked
    /\ pc[i] = "geo"
    /\ \E outs \in GeoScenarios :
          LET ip_info == get_ip_info(outs).ret IN
          Flow(i, [result[i] EXCEPT !.real_ip = ip_info.ip, !.country = ip_info.country,
                                    !.city = ip_info.city, !.isp = ip_info.isp],
               faults[i] \cup (IF GeoAllFailed(outs) THEN {"geo"} ELSE {}),
               permits, calls[i], 3)
    /\ UNCHANGED <<nodes, config, batchpc, valid_results, probeVars>>

DownloadReturn(i) ==
    /\ batchpc = "gathering"
    /\ ~Blocked
    /\ pc[i] = "download"
    /\ \E outs \in DownloadScenarios :
          Flow(i, [result[i] EXCEPT !.download_speed = test_download_speed(outs)],
               faults[i] \cup (IF DownloadAllFailed(outs) THEN {"download"} ELSE {}),
               permits, calls[i], 4)
    /\ UNCHANGED <<nodes, config, batchpc, valid_results, probeVars>>

\* test_upload_speed runs test_download_speed again, on its own requests.
UploadReturn(i) ==
    /\ batchpc = "gathering"
    /\ ~Blocked
    /\ pc[i] = "upload"
    /\ \E outs \in DownloadScenarios :
          Flow(i, [result[i] EXCEPT !.upload_speed = test_upload_speed(outs)],
               faults[i] \cup (IF DownloadAllFailed(outs) THEN {"upload"} ELSE {}),
               permits, calls[i], 5)
    /\ UNCHANGED <<nodes, config, batchpc, valid_results, probeVars>>

\* test_all_streaming returns, its entries are copied and the session is
\* closed; if close raises, the handler stores str(e).
StreamingReturn(i) ==
    /\ batchpc = "gathering"
    /\ ~Blocked
    /\ pc[i] = "streaming"
    /\ \E outs \in StreamScenarios, cl \in CloseOutcomes :
          LET streaming_results == test_all_streaming(outs)
              r == [result[i] EXCEPT
                      !.netflix = DictGet(streaming_results, "netflix", NotTested),
                      !.youtube = DictGet(streaming_results, "youtube", NotTested),
                      !.disney = DictGet(streaming_results, "disney", NotTested),
                      !.bilibili = DictGet(streaming_results, "bilibili", NotTested),
                      !.bahamut = DictGet(streaming_results, "bahamut", NotTested)]
              f == faults[i] \cup StreamFaults(outs)
              c == Called(calls[i], {"close"})
          IN  IF cl.kind = "exc"
              THEN Complete(i, [r EXCEPT !.error_msg = cl.msg], f \cup {"close"}, permits, c)
              ELSE Complete(i, r, f, permits, c)
    /\ UNCHANGED <<nodes, config, batchpc, valid_results, probeVars>>

\* Mutant: the entries are collected last task first.
GatherReversed ==
    [i \in Tasks |-> [exc |-> pc[Len(nodes) + 1 - i] = "raised",
                      val |-> result[Len(nodes) + 1 - i]]]

\* gather(*tasks, return_exceptions=True): one entry per task, at the
\* task's position; an entry is the returned result or the exception raised.
GatherResults == [i \in Tasks |-> [exc |-> pc[i] = "raised", val |-> result[i]]]

\* Lines 526-539.  No step of test_single_node raises for a well-formed
\* node, so no entry of the model is an exception.
ProcessResults(results) ==
    [i \in 1..Len(results) |->
        IF results[i].exc
        THEN [NodeTestResult(nodes[i]) EXCEPT !.error_msg = "exception"]
        ELSE results[i].val]

BatchReturn ==
    /\ batchpc = "gathering"
    /\ \A i \in Tasks : pc[i] \in {"done", "raised"}
    /\ valid_results' = ProcessResults(GatherResults)
    /\ batchpc' = "returned"
    /\ UNCHANGED <<nodes, config, permits, pc, result, calls, faults, overtaken,
                   probeVars>>

-----------------------------------------------------------------------------
(* Specifications *)

BatchIdle ==
    /\ batchpc = "idle"
    /\ permits = 0
    /\ pc = <<>>
    /\ result = <<>>
    /\ calls = <<>>
    /\ faults = <<>>
    /\ overtaken = FALSE
    /\ valid_results = <<>>

NotReturned == [done |-> FALSE, value |-> 0]

Returned(v) == [done |-> TRUE, value |-> v]

SpeedIdle == sp_out = <<>> /\ sp_ret = NotReturned

GeoIdle == geo_out = <<>> /\ geo_ret = NotReturned

StreamIdle == st_out = <<>> /\ st_state = <<>> /\ st_results = {} /\ st_pc = "idle"

ReportIdle == rp_in = <<>> /\ rp_out = NotReturned

NoBatch == nodes = <<>> /\ config = DefaultConfig /\ BatchIdle

Init ==
    /\ nodes \in NodeLists
    /\ \E cfg \in Configs : config = EnhancedNodeTester(cfg)
    /\ BatchIdle
    /\ SpeedIdle /\ GeoIdle /\ StreamIdle /\ ReportIdle

Next ==
    \/ BatchStart
    \/ \E i \in Tasks : Admit(i)
    \/ \E i \in Tasks : TcpPingReturn(i)
    \/ \E i \in Tasks : HttpPingReturn(i)
    \/ \E i \in Tasks : GeoReturn(i)
    \/ \E i \in Tasks : DownloadReturn(i)
    \/ \E i \in Tasks : UploadReturn(i)
    \/ \E i \in Tasks : StreamingReturn(i)
    \/ BatchReturn

Spec == Init /\ [][Next]_vars


\* The event loop runs a task that can run, and every network step returns,
\* fails or times out.
FairSpec == Spec /\ WF_vars(Next)

-----------------------------------------------------------------------------
(* SpeedTester.test_download_speed on every assignment of outcomes to the   *)
(* candidates                                                               *)

InitSpeed ==
    /\ sp_out \in [1..Len(test_urls) -> DownloadOutcomes]
    /\ sp_ret = NotReturned
    /\ NoBatch /\ GeoIdle /\ StreamIdle /\ ReportIdle

RunDownloadSpeed ==
    /\ ~sp_ret.done
    /\ sp_ret' = Returned(test_download_speed(sp_out))
    /\ UNCHANGED <<sp_out, batchVars, geoVars, streamVars, reportVars>>

NextSpeed == RunDownloadSpeed

SpecSpeed == InitSpeed /\ [][NextSpeed]_vars

-----------------------------------------------------------------------------
(* IPInfoTester.get_ip_info on every assignment of outcomes to the          *)
(* providers                                                                *)

InitGeo ==
    /\ geo_out \in [1..Len(apis) -> UNION {GeoOutcomes(apis[k]) : k \in 1..Len(apis)}]
    /\ \A k \in 1..Len(apis) : geo_out[k] \in GeoOutcomes(apis[k])
    /\ geo_ret = NotReturned
    /\ NoBatch /\ SpeedIdle /\ StreamIdle /\ ReportIdle

RunGetIpInfo ==
    /\ ~geo_ret.done
    /\ geo_ret' = Returned(get_ip_info(geo_out))
    /\ UNCHANGED <<geo_out, batchVars, speedVars, streamVars, reportVars>>

NextGeo == RunGetIpInfo

SpecGeo == InitGeo /\ [][NextGeo]_vars

-----------------------------------------------------------------------------
(* StreamingTester.test_all_streaming, one await at a time.  A coroutine    *)
(* object does not run until it is awaited: wait_for starts check k, and    *)
(* the loop reaches check k + 1 only when wait_for has returned or raised.  *)

InitStream ==
    /\ st_out \in [Services -> UNION {CheckOutcomes(s) : s \in Services}]
    /\ \A s \in Services : st_out[s] \in CheckOutcomes(s)
    /\ st_state = [s \in Services |-> "none"]
    /\ st_results = {}
    /\ st_pc = "idle"
    /\ NoBatch /\ SpeedIdle /\ GeoIdle /\ ReportIdle

\* Lines 200-213: the coroutine objects are created and the first one is
\* awaited.
StreamCall ==
    /\ st_pc = "idle"
    /\ st_pc' = "loop"
    /\ st_results' = {}
    /\ st_state' = [s \in Services |-> IF s = tasks[1] THEN "running" ELSE "created"]
    /\ UNCHANGED <<st_out, batchVars, speedVars, geoVars, reportVars>>

\* wait_for on check k ends: the check returned, or the timeout cancelled
\* it; the entry is stored and the loop awaits the next check or returns.
CheckDone(k) ==
    /\ st_pc = "loop"
    /\ st_state[tasks[k]] = "running"
    /\ st_results' = StreamStep(st_out, k, st_results)
    /\ st_state' = [s \in Services |->
          IF s = tasks[k]
          THEN (IF st_out[s].kind = "timeout" THEN "cancelled" ELSE "returned")
          ELSE IF k < Len(tasks) /\ s = tasks[k + 1] THEN "running"
          ELSE st_state[s]]
    /\ st_pc' = IF k < Len(tasks) THEN "loop" ELSE "returned"
    /\ UNCHANGED <<st_out, batchVars, speedVars, geoVars, reportVars>>

NextStream ==
    \/ StreamCall
    \/ \E k \in 1..Len(tasks) : CheckDone(k)

SpecStream == InitStream /\ [][NextStream]_vars


-----------------------------------------------------------------------------
(* generate_test_report *)

\* Python's "/" on numbers: the exact quotient num / den.  A divisor of 0
\* (den = 0) is the ZeroDivisionError the operation raises.
TrueDiv(a, b) == [num |-> a, den |-> b]

\* The literal 0 of the "else 0" branches.
Zero == [num |-> 0, den |-> 1]

Times(q, n) == [num |-> q.num * n, den |-> q.den]

RECURSIVE SumSeq(_)
SumSeq(xs) == IF xs = <<>> THEN 0 ELSE Head(xs) + SumSeq(Tail(xs))

\* [f(r) for r in rs]
Field(rs, name) == [k \in 1..Len(rs) |-> rs[k][name]]

\* Mutant: the dead nodes are not filtered out.
AliveNodesUnfiltered(results) == results

\* [r for r in results if r.is_alive]
AliveNodes(results) == SelectSeq(results, LAMBDA r : r.is_alive)

\* [r for r in results if not r.is_alive]
DeadNodes(results) == SelectSeq(results, LAMBDA r : ~r.is_alive)

\* Mutant: the division is made without looking at the list.
AverageUnguarded(total, xs) == TrueDiv(total, Len(xs))

\* total / len(xs) if xs else 0
Average(total, xs) == IF xs # <<>> THEN TrueDiv(total, Len(xs)) ELSE Zero

\* count / len(xs) * 100 if xs else 0
Rate(count, xs) == IF xs # <<>> THEN Times(TrueDiv(count, Len(xs)), 100) ELSE Zero

\* str.startswith of the check mark
StartsWithOk(v) == v \in {FullSupport, Supported}

\* The services of the loop at line 563.
report_services == <<"netflix", "youtube", "disney", "bilibili", "bahamut">>

\* The body of the loop over the services: one entry of streaming_stats.
StreamingStat(alive_nodes, service) ==
    LET supported == Len(SelectSeq(alive_nodes, LAMBDA r : StartsWithOk(r[service])))
    IN  [supported |-> supported, rate |-> Rate(supported, alive_nodes)]

\* Mutant: a country seen again is counted as 1.
CountryLoopNoIncrement(alive_nodes, k, country_stats) ==
    {<<c, 1>> : c \in {IF alive_nodes[j].country # "" THEN alive_nodes[j].country
                       ELSE Unknown : j \in k..Len(alive_nodes)}}
    \cup country_stats

\* The loop over alive_nodes from position k on: result.country or the
\* unknown literal is the bucket, created at 0 and incremented.
RECURSIVE CountryLoop(_, _, _)
CountryLoop(alive_nodes, k, country_stats) ==
    IF k > Len(alive_nodes) THEN country_stats
    ELSE LET country == IF alive_nodes[k].country # "" THEN alive_nodes[k].country
                        ELSE Unknown
             created == IF ~HasKey(country_stats, country)
                        THEN DictSet(country_stats, country, 0)
                        ELSE country_stats
         IN  CountryLoop(alive_nodes, k + 1,
                         DictSet(created, country, DictGet(created, country, 0) + 1))

generate_test_report(results) ==
    LET alive_nodes == AliveNodes(results)
        dead_nodes == DeadNodes(results)
        tcp_pings == SelectSeq(Field(alive_nodes, "tcp_ping"), LAMBDA t : t > 0)
        stats ==
            [total_nodes |-> Len(results),
             alive_nodes |-> Len(alive_nodes),
             dead_nodes |-> Len(dead_nodes),
             alive_rate |-> Rate(Len(alive_nodes), results),
             avg_tcp_ping |-> Average(SumSeq(tcp_pings), alive_nodes),
             avg_download_speed |->
                 Average(SumSeq(Field(alive_nodes, "download_speed")), alive_nodes)]
        streaming_stats ==
            [service \in {report_services[k] : k \in 1..Len(report_services)} |->
                StreamingStat(alive_nodes, service)]
    IN  [test_time |-> Now,
         stats |-> stats,
         streaming_stats |-> streaming_stats,
         country_stats |-> CountryLoop(alive_nodes, 1, {}),
         detailed_results |-> results]

\* Whether evaluating the report divides by zero, so that the call raises
\* instead of returning.
ReportRaises(report) ==
    \/ \E key \in {"alive_rate", "avg_tcp_ping", "avg_download_speed"} :
          report.stats[key].den = 0
    \/ \E service \in DOMAIN report.streaming_stats :
          report.streaming_stats[service].rate.den = 0

\* The results the pipelines produce, as far as the report reads them: an
\* unreachable node, and reachable nodes by latency, speed, country and
\* capability entries.
ReportResults ==
    {[NodeTestResult(Node("us1", "us1.example.com", 8443, "trojan")) EXCEPT
         !.error_msg = TcpFailedMsg]}
    \cup
    {[NodeTestResult(Node("hk1", "hk1.example.com", 443, "http")) EXCEPT
         !.is_alive = TRUE, !.tcp_ping = t, !.download_speed = d, !.country = c,
         !.netflix = IF ok THEN FullSupport ELSE TimedOut,
         !.youtube = IF ok THEN Supported ELSE DetectFailed,
         !.disney = IF ok THEN Supported ELSE Unsupported,
         !.bilibili = IF ok THEN Supported ELSE Partial,
         !.bahamut = IF ok THEN Supported ELSE Unsupported] :
       t \in {0, 20}, d \in {0, 10 * MaxSpeed}, c \in {"", Unknown, "JP"},
       ok \in BOOLEAN}

InitReport ==
    /\ rp_in \in SeqsUpTo(ReportResults, MaxResults)
    /\ rp_out = NotReturned
    /\ NoBatch /\ SpeedIdle /\ GeoIdle /\ StreamIdle

GenerateReport ==
    /\ ~rp_out.done
    /\ LET report == generate_test_report(rp_in) IN
       rp_out' = [done |-> TRUE, raised |-> ReportRaises(report), value |-> report]
    /\ UNCHANGED <<rp_in, batchVars, speedVars, geoVars, streamVars>>

NextReport == GenerateReport

SpecReport == InitReport /\ [][NextReport]_vars

-----------------------------------------------------------------------------
(* Properties of the batch *)

\* The configured concurrency cap.
Cap == DictGet(config, "max_concurrent", 5)

\* The places inside which a started pipeline waits: the TCP test and the
\* stages after it.
Running == {"tcp"} \cup {Stages[k] : k \in 1..Len(Stages)}

\* The pipelines that have started and not yet completed.
InFlight == {i \in DOMAIN pc : pc[i] \in Running}

SameIdentity(r, node) ==
    /\ r.name = node.name
    /\ r.server = node.server
    /\ r.port = node.port
    /\ r.protocol = node.protocol

\* Every measurement field of r has the default of the dataclass.
MeasurementsDefault(r) ==
    /\ r.tcp_ping = -1 /\ r.http_ping = -1 /\ r.is_alive = FALSE
    /\ r.download_speed = 0 /\ r.upload_speed = 0
    /\ r.real_ip = "" /\ r.country = "" /\ r.city = "" /\ r.isp = ""
    /\ r.netflix = NotTested /\ r.youtube = NotTested /\ r.disney = NotTested
    /\ r.hbo = NotTested /\ r.prime_video = NotTested
    /\ r.bilibili = NotTested /\ r.bahamut = NotTested

\* C1: when test_nodes_batch has returned, it has returned exactly one
\* result per input node, and the result at position i carries the name,
\* server, port and protocol of input node i, whatever the order in which
\* the pipelines completed; for an empty node list the returned list is
\* empty.
C1_OneResultPerNodeInOrder ==
    batchpc = "returned" =>
        /\ Len(valid_results) = Len(nodes)
        /\ \A i \in 1..Len(nodes) : SameIdentity(valid_results[i], nodes[i])

\* A batch of two different nodes has returned although the second node's
\* pipeline completed before the first one's.
C1_Witness ==
    /\ batchpc = "returned"
    /\ Len(nodes) = 2
    /\ nodes[1] # nodes[2]
    /\ overtaken
    /\ valid_results[1].is_alive /\ ~valid_results[2].is_alive

\* C2: in every state the number of pipelines that have started and not
\* yet completed is at most the configured cap max_concurrent.
C2_InFlightAtMostCap == InFlight = {} \/ Cardinality(InFlight) <= Cap

\* The cap is reached while a task is still waiting for a permit.
C2_Witness ==
    /\ Cap >= 1
    /\ Cardinality(InFlight) = Cap
    /\ \E i \in DOMAIN pc : pc[i] = "waiting"

\* The probes other than the connectivity probe.
LaterProbes == ProbeNames \ {"tcp_ping_test"}

\* C3: a node whose connectivity probe reported it unreachable has a
\* completed result with a non-empty error message, is_alive false and
\* every measurement field at its default, and none of the latency, geo,
\* throughput and capability probes was invoked for it.
C3_UnreachableShortCircuits ==
    \A i \in DOMAIN pc :
        "tcp" \in faults[i] =>
            /\ pc[i] = "done"
            /\ result[i].error_msg # ""
            /\ MeasurementsDefault(result[i])
            /\ \A p \in LaterProbes : calls[i][p] = 0
            /\ batchpc = "returned" => valid_results[i] = result[i]

\* The batch has returned with an unreachable node and a reachable node
\* for which later probes ran.
C3_Witness ==
    /\ batchpc = "returned"
    /\ \E i, j \in DOMAIN pc :
          /\ "tcp" \in faults[i]
          /\ calls[i]["tcp_ping_test"] = 1
          /\ valid_results[j].is_alive
          /\ calls[j]["get_ip_info"] = 1

\* The failure f of pipeline i shows in the result r: the failed probe's
\* field holds its sentinel, or the error message is set.
FailureShows(f, r) ==
    CASE f = "tcp" -> r.tcp_ping = -1 /\ ~r.is_alive /\ r.error_msg # ""
      [] f = "http" -> r.http_ping = -1
      [] f = "geo" -> r.real_ip = Unknown /\ r.country = Unknown
                      /\ r.city = Unknown /\ r.isp = Unknown
      [] f = "download" -> r.download_speed = 0
      [] f = "upload" -> r.upload_speed = 0
      [] f = "session" -> r.error_msg # ""
      [] f = "close" -> r.error_msg # ""
      [] f = "netflix" -> r.netflix \in {DetectFailed, TimedOut}
      [] f = "youtube" -> r.youtube \in {DetectFailed, TimedOut}
      [] f = "disney" -> r.disney \in {DetectFailed, TimedOut}
      [] f = "bilibili" -> r.bilibili \in {DetectFailed, TimedOut}
      [] f = "bahamut" -> r.bahamut \in {DetectFailed, TimedOut}

\* C4: unless the configured cap is negative, test_nodes_batch never
\* raises, whatever fails inside the pipelines; no pipeline's exception
\* reaches gather; and every failure of a probe or of a pipeline step
\* shows in that node's returned result as a sentinel value or as a
\* non-empty error message.
C4_NoErrorEscapesBatch ==
    /\ batchpc = "raised" => Cap < 0
    /\ \A i \in DOMAIN pc : pc[i] # "raised"
    /\ batchpc = "returned" =>
          \A i \in 1..Len(nodes) :
              \A f \in faults[i] : FailureShows(f, valid_results[i])

\* The batch has returned although creating or closing the capability
\* session raised inside a pipeline.
C4_Witness ==
    /\ batchpc = "returned"
    /\ \E i \in DOMAIN pc : faults[i] \cap {"session", "close"} # {}


\* The steps of a pipeline that are no probe's own failure.
PipelineFaults == {"session", "close"}

\* C5: a pipeline in which an unexpected failure occurred (creating or
\* closing the capability session raised) has completed with a non-empty
\* error message, the identity of its node, and every measurement field
\* at its default.
C5_PipelineFaultResetsMeasurements ==
    \A i \in DOMAIN pc :
        (pc[i] = "done" /\ faults[i] \cap PipelineFaults # {}) =>
            /\ result[i].error_msg # ""
            /\ SameIdentity(result[i], nodes[i])
            /\ MeasurementsDefault(result[i])

\* C6: a batch call with a cap of 0 or less is rejected with an error
\* before any pipeline starts: once called, it has raised, and it never
\* waits in gather.
C6_NonPositiveCapRejected ==
    (Cap <= 0 /\ batchpc # "idle") => batchpc = "raised"

\* C7: under fair scheduling, a batch call that was accepted and waits for
\* its pipelines eventually returns with every pipeline done.
C7_BatchEventuallyReturns ==
    (batchpc = "gathering") ~>
        (batchpc = "returned" /\ \A i \in DOMAIN pc : pc[i] = "done")

\* With a cap of at least 1 the batch does return under fair scheduling:
\* the permit is released by every pipeline that completes.
PositiveCapBatchReturns ==
    (batchpc = "gathering" /\ Cap >= 1) ~>
        (batchpc = "returned" /\ \A i \in DOMAIN pc : pc[i] = "done")

-----------------------------------------------------------------------------
(* Properties of the probes *)

\* The candidates whose download did not raise.
Succeeded == {k \in 1..Len(test_urls) : sp_out[k].kind # "exc"}

\* C8: test_download_speed returns 0 when every candidate fails, and
\* otherwise the speed of a candidate that succeeded which no other
\* succeeding candidate exceeds, so no candidate lowers the result.
C8_DownloadIsMaxOfSucceeded ==
    sp_ret.done =>
        IF Succeeded = {} THEN sp_ret.value = 0
        ELSE /\ \E k \in Succeeded : sp_ret.value = download_test_single(sp_out[k])
             /\ \A k \in Succeeded : sp_ret.value >= download_test_single(sp_out[k])

\* The first candidate failed, the second ran at 2 MB/s, the third at
\* 1 MB/s, and 2 MB/s was returned.
C8_Witness ==
    /\ sp_ret.done
    /\ sp_out[1].kind = "exc"
    /\ sp_out[2] = DownloadResp(200, 20, 1)
    /\ sp_out[3] = DownloadResp(200, 10, 1)
    /\ sp_out[4].kind = "exc"
    /\ sp_ret.value = 20

\* The providers that answered 200 with a JSON document.
Answered == {k \in 1..Len(apis) : geo_out[k].kind = "resp" /\ geo_out[k].status = 200}

\* Every field of info is a value of the document doc, "" or the unknown
\* literal.
FromDocument(info, doc) ==
    \A v \in {info.ip, info.country, info.city, info.isp} :
        v \in {p[2] : p \in doc} \cup {"", Unknown}

\* C9: get_ip_info returns the record parsed from the first provider, in
\* priority order, that answers; all four fields come from that provider's
\* document; no provider after it is queried; and when no provider answers
\* the record of four unknown literals is returned.
C9_FirstAnsweringProviderWins ==
    geo_ret.done =>
        IF Answered = {}
        THEN geo_ret.value = [ret |-> UnknownInfo, queried |-> Len(apis)]
        ELSE LET first == CHOOSE k \in Answered : \A j \in Answered : k <= j
             IN  /\ geo_ret.value.ret = query_ip_api(apis[first], geo_out[first]).info
                 /\ FromDocument(geo_ret.value.ret, geo_out[first].data)
                 /\ geo_ret.value.queried = first

\* The first provider failed, the second and the third answered, and the
\* second provider's record was returned after two queries.
C9_Witness ==
    /\ geo_ret.done
    /\ geo_out[1].kind = "exc"
    /\ geo_out[2] = GeoResp(200, ProviderDoc(apis[2]))
    /\ geo_out[3] = GeoResp(200, ProviderDoc(apis[3]))
    /\ geo_ret.value.ret = [ip |-> "2.2.2.2", country |-> "US", city |-> "Dallas",
                            isp |-> "isp-2"]
    /\ geo_ret.value.queried = 2

\* C10: the map test_all_streaming returns has an entry for each of the
\* five capabilities; the entry of a check that did not return within its
\* timeout is the timeout literal, and every other entry is what that
\* capability's own check resolved to.
C10_EntryForEveryCapability ==
    st_pc = "returned" =>
        /\ {p[1] : p \in st_results} = Services
        /\ Cardinality(st_results) = Cardinality(Services)
        /\ \A s \in Services :
              IF st_out[s].kind = "timeout"
              THEN DictGet(st_results, s, NotTested) = TimedOut
              ELSE DictGet(st_results, s, NotTested) = RunCheck(s, st_out[s])

\* The netflix check timed out, the later youtube check resolved to
\* supported and the bahamut check to unsupported.
C10_Witness ==
    /\ st_pc = "returned"
    /\ st_out["netflix"].kind = "timeout"
    /\ DictGet(st_results, "netflix", NotTested) = TimedOut
    /\ DictGet(st_results, "youtube", NotTested) = Supported
    /\ DictGet(st_results, "bahamut", NotTested) = Unsupported

\* The checks that have been started: running, returned or cancelled.
Started == {s \in Services : st_state[s] \in {"running", "returned", "cancelled"}}

\* C11: while the capability stage of a node is waiting for its checks,
\* every check has been started (all checks run concurrently): no check
\* waits for the end of a sibling, hung or not, before it starts.
C11_AllChecksStartedTogether ==
    st_pc = "loop" => Started = Services

\* The outcome a recorded literal stands for: the two "supported" literals
\* are one outcome, every other literal is its own.
OutcomeOf(v) == IF v \in {FullSupport, Supported} THEN Supported ELSE v

\* C20: in the map test_all_streaming returns, a check that timed out and a
\* check that failed with a detection error carry the same outcome, and
\* the outcomes recorded are at most four different values.
C20_TimeoutAndErrorSameOutcome ==
    st_pc = "returned" =>
        /\ \A s, t \in Services :
              (st_out[s].kind = "timeout" /\ st_out[t].kind = "exc") =>
                  DictGet(st_results, s, NotTested) = DictGet(st_results, t, NotTested)
        /\ Cardinality({OutcomeOf(p[2]) : p \in st_results}) <= 4

-----------------------------------------------------------------------------
(* Properties of the pipeline's stages *)

\* The results of reachable nodes in the returned list.
AliveResults == {i \in 1..Len(valid_results) : valid_results[i].is_alive}

\* C12: in every returned result of a reachable node the upload speed is
\* 0.7 times the download speed of the same result.
C12_UploadIsFractionOfDownload ==
    batchpc = "returned" =>
        \A i \in AliveResults :
            valid_results[i].upload_speed * 10 = valid_results[i].download_speed * 7

\* C13: for every reachable node of a returned batch the latency probe
\* was invoked, and so was every enabled geo, throughput and capability
\* probe, whatever the node's protocol.
C13_EveryReachableNodeIsProbed ==
    batchpc = "returned" =>
        \A i \in AliveResults :
            /\ calls[i]["http_ping_test"] >= 1
            /\ Flag(config, "enable_ip_test") => calls[i]["get_ip_info"] >= 1
            /\ Flag(config, "enable_speed_test") => calls[i]["test_download_speed"] >= 1
            /\ Flag(config, "enable_streaming_test") => calls[i]["create_session"] >= 1

\* C14: with a configuration that leaves an enable option unset, the
\* stage of that option runs for every reachable node; with max_concurrent
\* unset, the permits free and held add up to 5.
C14_UnsetOptionsTakeDefaults ==
    /\ (~HasKey(config, "max_concurrent") /\ batchpc = "gathering") =>
           permits + Cardinality(InFlight) = 5
    /\ batchpc = "returned" =>
           \A i \in AliveResults :
               /\ ~HasKey(config, "enable_ip_test") => calls[i]["get_ip_info"] >= 1
               /\ ~HasKey(config, "enable_speed_test") =>
                      calls[i]["test_download_speed"] >= 1
               /\ ~HasKey(config, "enable_streaming_test") =>
                      calls[i]["create_session"] >= 1

\* C15: in every returned result each of the geo fields is a value a
\* provider reported or the unknown literal, never empty.
C15_GeoFieldsNeverEmpty ==
    batchpc = "returned" =>
        \A i \in 1..Len(valid_results) :
            \A v \in {valid_results[i].real_ip, valid_results[i].country,
                      valid_results[i].city, valid_results[i].isp} :
                v # ""

\* C16: in every returned result the TCP latency is a measured value
\* (>= 0) exactly if the node is marked reachable, and is the sentinel -1
\* otherwise.
C16_TcpLatencyIffReachable ==
    batchpc = "returned" =>
        \A i \in 1..Len(valid_results) :
            /\ valid_results[i].is_alive <=> valid_results[i].tcp_ping >= 0
            /\ ~valid_results[i].is_alive => valid_results[i].tcp_ping = -1

\* The batch has returned a reachable node with its measured latency, a
\* node whose connect was refused and one whose connect attempt raised.
C16_Witness ==
    /\ batchpc = "returned"
    /\ \E i, j \in 1..Len(valid_results) :
          /\ valid_results[i].is_alive /\ valid_results[i].tcp_ping = 20
          /\ ~valid_results[j].is_alive /\ valid_results[j].tcp_ping = -1
          /\ valid_results[j].error_msg = TcpFailedMsg

-----------------------------------------------------------------------------
(* Properties of the report *)

\* The positions of the reachable nodes in the argument of the report.
AliveIn == {i \in 1..Len(rp_in) : rp_in[i].is_alive}

\* The quotient q is the number 0.
IsZero(q) == q.den # 0 /\ q.num = 0

RECURSIVE SumOver(_, _)
SumOver(S, name) ==
    IF S = {} THEN 0
    ELSE LET i == CHOOSE j \in S : TRUE
         IN  rp_in[i][name] + SumOver(S \ {i}, name)

\* C17: for a result list without a reachable node, the empty list
\* included, generate_test_report returns without dividing by zero, with
\* an alive rate of 0, an average TCP latency of 0, an average download
\* speed of 0 and a rate of 0 for every capability.
C17_NoAliveNodeGivesZeros ==
    (rp_out.done /\ AliveIn = {}) =>
        /\ ~rp_out.raised
        /\ IsZero(rp_out.value.stats.alive_rate)
        /\ IsZero(rp_out.value.stats.avg_tcp_ping)
        /\ IsZero(rp_out.value.stats.avg_download_speed)
        /\ \A service \in DOMAIN rp_out.value.streaming_stats :
              IsZero(rp_out.value.streaming_stats[service].rate)

\* A report was produced for a list of two unreachable nodes.
C17_Witness ==
    /\ rp_out.done
    /\ Len(rp_in) = 2
    /\ AliveIn = {}
    /\ rp_out.value.stats.dead_nodes = 2

RECURSIVE SumCounts(_)
SumCounts(d) ==
    IF d = {} THEN 0
    ELSE LET p == CHOOSE q \in d : TRUE IN p[2] + SumCounts(d \ {p})

\* The bucket of a result: its country, or the unknown literal for "".
Bucket(r) == IF r.country = "" THEN Unknown ELSE r.country

\* C18: the per-country counts of the report sum to the number of
\* reachable nodes; each bucket's count is the number of reachable nodes
\* of that bucket, empty and unknown countries sharing the unknown bucket;
\* and there is no bucket without a reachable node.
C18_CountryCountsSumToAlive ==
    (rp_out.done /\ ~rp_out.raised) =>
        LET country_stats == rp_out.value.country_stats IN
        /\ SumCounts(country_stats) = Cardinality(AliveIn)
        /\ {p[1] : p \in country_stats} = {Bucket(rp_in[i]) : i \in AliveIn}
        /\ \A p \in country_stats :
              p[2] = Cardinality({i \in AliveIn : Bucket(rp_in[i]) = p[1]})

\* Two reachable nodes, one with no country and one with the unknown
\* literal, were counted in one bucket of 2.
C18_Witness ==
    /\ rp_out.done
    /\ Len(rp_in) = 2
    /\ rp_in[1].is_alive /\ rp_in[1].country = ""
    /\ rp_in[2].is_alive /\ rp_in[2].country = Unknown
    /\ rp_out.value.country_stats = {<<Unknown, 2>>}

\* C19: for a result list with a reachable node, the average TCP latency
\* times the number of reachable nodes is the sum of their TCP latencies,
\* likewise for the download speed; unreachable nodes contribute nothing;
\* and total = alive + dead.
C19_AveragesOverAliveOnly ==
    (rp_out.done /\ AliveIn # {}) =>
        LET stats == rp_out.value.stats IN
        /\ ~rp_out.raised
        /\ stats.alive_nodes = Cardinality(AliveIn)
        /\ stats.total_nodes = stats.alive_nodes + stats.dead_nodes
        /\ stats.total_nodes = Len(rp_in)
        /\ stats.avg_tcp_ping.den = Cardinality(AliveIn)
        /\ stats.avg_tcp_ping.num = SumOver(AliveIn, "tcp_ping")
        /\ stats.avg_download_speed.den = Cardinality(AliveIn)
        /\ stats.avg_download_speed.num = SumOver(AliveIn, "download_speed")

\* A reachable node with 20 ms and 2 MB/s was averaged beside an
\* unreachable node.
C19_Witness ==
    /\ rp_out.done
    /\ Len(rp_in) = 2
    /\ rp_in[1].is_alive /\ rp_in[1].tcp_ping = 20 /\ rp_in[1].download_speed = 20
    /\ ~rp_in[2].is_alive /\ rp_in[2].tcp_ping = -1
    /\ rp_out.value.stats.avg_tcp_ping = TrueDiv(20, 1)
    /\ rp_out.value.stats.avg_download_speed = TrueDiv(20, 1)

-----------------------------------------------------------------------------
(* Properties of the stages' isolation, the permits and the resources *)

\* The option key is set to False in the configuration.
Disabled(key) == HasKey(config, key) /\ ~Flag(config, key)

\* C21: a stage whose option is disabled is never invoked for any node and
\* its fields keep their defaults; every completed pipeline ran the
\* connectivity probe once, under every configuration; and each enabled
\* stage of a completed reachable node was invoked, whatever the other
\* options are.
C21_StagesIndependentlyToggleable ==
    \A i \in DOMAIN pc :
        /\ Disabled("enable_ip_test") =>
              /\ calls[i]["get_ip_info"] = 0
              /\ i \in DOMAIN result =>
                    /\ result[i].real_ip = "" /\ result[i].country = ""
                    /\ result[i].city = "" /\ result[i].isp = ""
        /\ Disabled("enable_speed_test") =>
              /\ calls[i]["test_download_speed"] = 0
              /\ calls[i]["test_upload_speed"] = 0
              /\ i \in DOMAIN result =>
                    result[i].download_speed = 0 /\ result[i].upload_speed = 0
        /\ Disabled("enable_streaming_test") =>
              /\ calls[i]["create_session"] = 0
              /\ calls[i]["test_all_streaming"] = 0
              /\ calls[i]["close"] = 0
              /\ i \in DOMAIN result =>
                    /\ result[i].netflix = NotTested /\ result[i].youtube = NotTested
                    /\ result[i].disney = NotTested /\ result[i].bilibili = NotTested
                    /\ result[i].bahamut = NotTested
        /\ pc[i] = "done" =>
              /\ calls[i]["tcp_ping_test"] = 1
              /\ result[i].is_alive =>
                    /\ Flag(config, "enable_ip_test") => calls[i]["get_ip_info"] = 1
                    /\ Flag(config, "enable_speed_test") =>
                          /\ calls[i]["test_download_speed"] = 2
                          /\ calls[i]["test_upload_speed"] = 1
                    /\ Flag(config, "enable_streaming_test") =>
                          calls[i]["create_session"] = 1

\* A reachable node completed with the geo stage disabled and the
\* throughput and capability stages enabled and run.
C21_Witness ==
    /\ batchpc = "returned"
    /\ Disabled("enable_ip_test")
    /\ Flag(config, "enable_speed_test") /\ Flag(config, "enable_streaming_test")
    /\ \E i \in DOMAIN pc :
          /\ valid_results[i].is_alive
          /\ calls[i]["get_ip_info"] = 0
          /\ valid_results[i].country = ""
          /\ valid_results[i].download_speed = 20
          /\ valid_results[i].netflix = FullSupport

\* The capability entries of result r, by service.
CapabilityField(r, s) ==
    CASE s = "netflix" -> r.netflix
      [] s = "youtube" -> r.youtube
      [] s = "disney" -> r.disney
      [] s = "bilibili" -> r.bilibili
      [] s = "bahamut" -> r.bahamut

\* The probes' own failures: a failed or timed-out latency, geo,
\* throughput or capability probe.
ProbeFaults == {"http", "geo", "download", "upload"} \cup Services

\* C22: in a completed pipeline of a reachable node, each probe that
\* failed or timed out left its own sentinel, every enabled stage was
\* still invoked, and each probe that did not fail has its measured
\* outcome recorded; this holds for every node of the batch, whatever
\* failed in the pipelines of the others.
C22_ProbeFailureIsConfined ==
    \A i \in DOMAIN pc :
        (pc[i] = "done" /\ result[i].is_alive) =>
            LET r == result[i]
                f == faults[i]
                node == nodes[i]
            IN  /\ \A x \in f \cap ProbeFaults : FailureShows(x, r)
                /\ StageEnabled("http", node, config) =>
                      /\ calls[i]["http_ping_test"] = 1
                      /\ "http" \notin f => r.http_ping >= 0
                /\ StageEnabled("geo", node, config) =>
                      /\ calls[i]["get_ip_info"] = 1
                      /\ "geo" \notin f => r.country \notin {"", Unknown}
                /\ StageEnabled("download", node, config) =>
                      /\ calls[i]["test_download_speed"] = 2
                      /\ calls[i]["test_upload_speed"] = 1
                      /\ "download" \notin f => r.download_speed > 0
                      /\ "upload" \notin f => r.upload_speed > 0
                /\ StageEnabled("streaming", node, config) =>
                      /\ calls[i]["create_session"] = 1
                      /\ "session" \notin f =>
                            /\ calls[i]["test_all_streaming"] = 1
                            /\ \A s \in Services \ f :
                                  CapabilityField(r, s) \notin
                                      {NotTested, DetectFailed, TimedOut}

\* Every provider of one node's geo probe failed; that node's throughput
\* was still measured, and the other node's geo fields were resolved.
C22_Witness ==
    /\ batchpc = "returned"
    /\ \E i, j \in DOMAIN pc :
          /\ i # j
          /\ valid_results[i].is_alive /\ valid_results[j].is_alive
          /\ "geo" \in faults[i]
          /\ valid_results[i].country = Unknown
          /\ valid_results[i].download_speed = 20
          /\ faults[j] = {}
          /\ valid_results[j].country = "US"

\* C23: while the batch runs and when it has returned, the permits held
\* (the cap minus the free permits) are as many as the pipelines in
\* flight and lie between 0 and the cap; a task still waiting for its
\* permit has made no call; a completed pipeline holds no permit however
\* it ended; and when the batch has returned every permit is free.
C23_PermitAccounting ==
    batchpc \in {"gathering", "returned"} =>
        /\ Cap - permits = Cardinality(InFlight)
        /\ 0 <= Cap - permits /\ Cap - permits <= Cap
        /\ \A i \in DOMAIN pc :
              pc[i] = "waiting" => \A p \in CallNames : calls[i][p] = 0
        /\ batchpc = "returned" => permits = Cap

\* With a cap of 2 the batch has returned all permits after one pipeline
\* aborted as unreachable and another ended on a raised error.
C23_Witness ==
    /\ batchpc = "returned"
    /\ Cap = 2
    /\ permits = 2
    /\ \E i, j \in DOMAIN pc :
          /\ "tcp" \in faults[i]
          /\ faults[j] \cap PipelineFaults # {}

\* C24: when a pipeline is done, the socket its connectivity probe opened
\* has been closed, and the session opened for its capability stage has
\* been closed, on every path.
C24_ConnectionsReleased ==
    \A i \in DOMAIN pc :
        pc[i] = "done" =>
            /\ calls[i]["sock.close"] = calls[i]["tcp_ping_test"]
            /\ (calls[i]["create_session"] = 1 /\ "session" \notin faults[i]) =>
                  (calls[i]["close"] = 1 /\ "close" \notin faults[i])

\* The pipelines waiting inside the connect of their connectivity probe.
InConnect == {i \in DOMAIN pc : pc[i] = "tcp"}

\* C25: while a pipeline waits inside the connect of its connectivity
\* probe, a task that waits for a permit and finds one free can start its
\* own pipeline and enter its connect, so that two pipelines wait inside
\* their connectivity probes at once.
C25_NetworkWaitsDoNotBlock ==
    \A i, j \in DOMAIN pc :
        (i # j /\ pc[i] = "tcp" /\ pc[j] = "waiting" /\ ~SemaphoreLocked(permits)) =>
            ENABLED Admit(j)

\* C26: the probes of one node run one at a time in the order
\* connectivity, latency, geo, download, upload, capability: while a
\* pipeline waits inside a probe, every enabled earlier probe has been
\* invoked and no later probe has, and no probe is invoked twice (the
\* upload probe makes the second call of the download probe).
C26_StagesStrictlyOrdered ==
    \A i \in DOMAIN pc :
        LET c == calls[i]
            node == nodes[i]
            at == pc[i]
            before(s) == StageEnabled(s, node, config)
        IN  /\ c["tcp_ping_test"] <= 1 /\ c["http_ping_test"] <= 1
            /\ c["get_ip_info"] <= 1 /\ c["test_download_speed"] <= 2
            /\ c["test_upload_speed"] <= 1 /\ c["create_session"] <= 1
            /\ c["test_all_streaming"] <= 1 /\ c["close"] <= 1
            /\ at = "waiting" => \A p \in ProbeNames : c[p] = 0
            /\ at = "tcp" =>
                  /\ c["tcp_ping_test"] = 1
                  /\ \A p \in ProbeNames \ {"tcp_ping_test"} : c[p] = 0
            /\ at = "http" =>
                  /\ c["tcp_ping_test"] = 1 /\ c["http_ping_test"] = 1
                  /\ \A p \in ProbeNames \ {"tcp_ping_test", "http_ping_test"} : c[p] = 0
            /\ at = "geo" =>
                  /\ c["tcp_ping_test"] = 1 /\ c["get_ip_info"] = 1
                  /\ before("http") => c["http_ping_test"] = 1
                  /\ \A p \in {"test_download_speed", "test_upload_speed",
                               "create_session", "test_all_streaming", "close"} :
                        c[p] = 0
            /\ at = "download" =>
                  /\ c["tcp_ping_test"] = 1 /\ c["test_download_speed"] = 1
                  /\ before("http") => c["http_ping_test"] = 1
                  /\ before("geo") => c["get_ip_info"] = 1
                  /\ \A p \in {"test_upload_speed", "create_session",
                               "test_all_streaming", "close"} : c[p] = 0
            /\ at = "upload" =>
                  /\ c["tcp_ping_test"] = 1
                  /\ c["test_download_speed"] = 2 /\ c["test_upload_speed"] = 1
                  /\ before("http") => c["http_ping_test"] = 1
                  /\ before("geo") => c["get_ip_info"] = 1
                  /\ \A p \in {"create_session", "test_all_streaming", "close"} : c[p] = 0
            /\ at = "streaming" =>
                  /\ c["tcp_ping_test"] = 1
                  /\ c["create_session"] = 1 /\ c["test_all_streaming"] = 1
                  /\ c["close"] = 0
                  /\ before("http") => c["http_ping_test"] = 1
                  /\ before("geo") => c["get_ip_info"] = 1
                  /\ before("download") =>
                        c["test_download_speed"] = 2 /\ c["test_upload_speed"] = 1

\* A pipeline waits inside its capability stage after its latency, geo
\* and throughput probes, while the pipeline of another node is still
\* inside its geo probe.
C26_Witness ==
    \E i, j \in DOMAIN pc :
        /\ pc[i] = "streaming" /\ pc[j] = "geo"
        /\ calls[i]["http_ping_test"] = 1
        /\ calls[i]["get_ip_info"] = 1
        /\ calls[i]["test_download_speed"] = 2
        /\ calls[j]["test_download_speed"] = 0

=============================================================================
